---- MODULE Spec2Model ----
(***************************************************************************)
(* The updater service of valorantsl: PlayerUpdater (src/updater/updater.py)*)
(* driving RiotAPIClient (src/updater/riot_api.py) and DatabaseManager     *)
(* (src/updater/database.py) over a shared document collection.            *)
(*                                                                         *)
(* One update cycle is update_all_players; the process-wide player_updater *)
(* instance is reused for every cycle of the process.  Each await point of *)
(* the code is one action; pc is the position of the single updater task.  *)
(***************************************************************************)
EXTENDS Integers, Sequences, FiniteSets, TLC

\* ------------------------------------------------------------------ bounds
MaxPlayers == 2        \* document slots of the collection
MaxCycles == 2         \* update cycles run by one process
RetryAfterSeconds == 7 \* the value of a well-formed Retry-After header

\* ------------------------------------------------------- program constants
retry_delay == 5       \* settings.retry_delay (5.0)

RetryCeilings == {1, 2, 3}    \* configured values of settings.max_retries (default 3)

DocIds == 1..MaxPlayers
Puuids == 1..MaxPlayers       \* a puuid is a positive number; 0 is a missing/empty puuid
Tiers == {1}                  \* tier ids the upstream reports (a stored record starts at 0)

\* Optional values: <<>> is None, <<x>> is the value x.
None == <<>>
Some(x) == <<x>>

\* HTTP outcomes of one attempt: a status code, or 0 for a timeout / transport
\* error (httpx.RequestError raised by session.get).
TransportError == 0
FailStatuses == {500, TransportError}
RetryAfterHeaders == {"absent", "int", "bad"}

\* Bodies of a 200 answer of the MMR endpoint: without a "data" key, with
\* "data": null, with a data object in which account, current, current.tier or
\* peak is present but null ("nullfield"), or with a data object that carries
\* the current tier (its other optional fields present or missing).
MmrBodies ==
  {[data |-> "absent", tier |-> 0], [data |-> "null", tier |-> 0],
   [data |-> "nullfield", tier |-> 0]}
    \cup [data : {"present"}, tier : Tiers]

\* Bodies of a 200 answer of the v4 matches endpoint: without a "data" key, with
\* a match without a usable timestamp, or with metadata.started_at.
MatchBodies == {"nodata", "nometadata", "started_at"}

VARIABLES
  store,          \* the collection: DocIds -> None | Some(document)
  max_retries,    \* settings.max_retries
  stats,          \* player_updater.stats
  clock,          \* datetime.utcnow(), a logical clock
  pc,             \* position of the updater task
  cycle,          \* number of cycles started so far
  players,        \* local `players` of update_all_players
  i,              \* loop index of _update_players_batch (1-based, as enumerate(players, 1))
  session,        \* riot_api.session: "closed" (None) | "open"
  client,         \* db_manager.client: "none" | "open" | "closed"
  connect_ok,     \* result of db_manager.connect() in this cycle
  reqKind,        \* which endpoint _make_request is serving: "mmr" | "matches" | "none"
  attempt,        \* loop variable `attempt` of _make_request
  respLog,        \* statuses answered to the current/last _make_request call
  sleepLog,       \* backoff sleeps of the current/last _make_request call
  result,         \* return value of the last _make_request call
  mmr_data,       \* local `mmr_data` of get_full_player_data
  player_data,    \* local `player_data` of _update_single_player
  writeRes,       \* what update_player_data did for the current player
  excCaught,      \* exception raised while processing the current player
  failedBefore,   \* stats.failed_updates when the current player was taken
  events,         \* this cycle's trace of _update_single_player calls and delays
  outcomes,       \* this cycle's per-player outcome, in processing order
  httpIssued,     \* an HTTP request has been issued in this cycle
  puuidsAtStart,  \* the puuid of every slot when the cycle started
  pendingReturn,  \* value of a `return` evaluated inside try, before finally
  returned,       \* what the last finished update_all_players returned
  upstream,       \* None, or the fixed dataset served in runs without faults
  mode,           \* how the process was started: "library" | "scheduler" | "once" | "test"
  mainPc,         \* position of main() / run_scheduler
  running,        \* UpdaterService.running
  due,            \* the scheduled job's next_run has passed
  exit_code,      \* argument of sys.exit, NoExit while the process runs
  signalled,      \* SIGINT or SIGTERM has been delivered since the last cycle began
  normIn,         \* an MMR body handed to the rank normalization, in both shapes
  normOut,        \* the rank_details computed from each shape
  reg,            \* the submit_registration requests of the backend
  used_codes,     \* auth._used_codes
  callbacks,      \* the discord_callback requests of the backend
  completed,      \* the OAuth codes of the callbacks that returned normally
  bot,            \* one update_discord_roles call of the Discord bot
  readIn,         \* one record's rank values, stored in the nested and the flat shape
  readOut         \* what each reader of stored records obtained from each shape

vars == <<store, max_retries, stats, clock, pc, cycle, players, i, session, client,
          connect_ok, reqKind, attempt, respLog, sleepLog, result, mmr_data,
          player_data, writeRes, excCaught, failedBefore, events, outcomes,
          httpIssued, puuidsAtStart, pendingReturn, returned,
          upstream, mode, mainPc, running, due, exit_code, signalled,
          normIn, normOut,
          reg, used_codes, callbacks, completed, bot, readIn, readOut>>

\* State of player_updater, riot_api, db_manager and of the run in progress.
updaterVars == <<store, max_retries, stats, clock, pc, cycle, players, i, session, client,
                 connect_ok, reqKind, attempt, respLog, sleepLog, result, mmr_data,
                 player_data, writeRes, excCaught, failedBefore, events, outcomes,
                 httpIssued, puuidsAtStart, pendingReturn, returned>>

\* State of the command line entry point and of the scheduler.
mainVars == <<mode, mainPc, running, due, exit_code, signalled>>

\* State outside one run of the update pipeline.
\* State of the backend (registration, OAuth callback, readers) and of the bot.
authVars == <<used_codes, callbacks, completed>>
readVars == <<readIn, readOut>>
compVars == <<reg, authVars, bot, readVars>>

extVars == <<upstream, mainVars, normIn, normOut, compVars>>

reqVars == <<reqKind, attempt, respLog, sleepLog, result>>
playerVars == <<mmr_data, player_data, writeRes, excCaught, failedBefore>>

\* ------------------------------------------------------------- the store
NoTime == -1       \* None where the code holds a datetime

\* A record as registration creates it: discord_id and region are written by
\* registration only, the other fields are rewritten by the updater.
NewDoc(p, d) ==
  [puuid |-> p, discord_id |-> d, region |-> "ap", current_tier |-> 0,
   last_played_match |-> "absent", last_updated |-> NoTime,
   update_source |-> "registration"]

PuuidOf(st, d) == IF st[d] = None THEN -1 ELSE st[d][1].puuid

PuuidsOf(st) == [d \in DocIds |-> PuuidOf(st, d)]

\* collection.find({}, {"puuid": 1, ...}).to_list(): the documents in natural order.
RECURSIVE FindAll(_, _)
FindAll(st, d) ==
  IF d > MaxPlayers THEN <<>>
  ELSE (IF st[d] = None THEN <<>> ELSE <<[puuid |-> st[d][1].puuid]>>) \o FindAll(st, d + 1)

Matching(st, p) == {d \in DocIds : st[d] # None /\ st[d][1].puuid = p}

Min(S) == CHOOSE x \in S : \A y \in S : x <= y

\* Mutant of SetFields: the record is replaced by the update document.
ReplaceDoc(doc, upd) ==
  [puuid |-> upd.puuid, discord_id |-> 0, region |-> "none",
   current_tier |-> upd.current_tier, last_played_match |-> upd.last_played_match,
   last_updated |-> upd.last_updated, update_source |-> upd.update_source]

\* Mutant of SetFields: the tier is accumulated ($inc) rather than set.
AddFields(doc, upd) ==
  [doc EXCEPT !.puuid = upd.puuid, !.current_tier = @ + upd.current_tier,
              !.last_played_match = upd.last_played_match,
              !.last_updated = upd.last_updated,
              !.update_source = upd.update_source]

\* {"$set": update_data}: the listed fields are overwritten, the others kept.
SetFields(doc, upd) ==
  [doc EXCEPT !.puuid = upd.puuid, !.current_tier = upd.current_tier,
              !.last_played_match = upd.last_played_match,
              !.last_updated = upd.last_updated,
              !.update_source = upd.update_source]


\* Mutant of UpdateOne: the filter is dropped, the first record is updated.
UpdateOneAnyRecord(st, p, upd) ==
  IF \A d \in DocIds : st[d] = None THEN st
  ELSE LET d0 == Min({d \in DocIds : st[d] # None})
       IN [st EXCEPT ![d0] = Some(SetFields(st[d0][1], upd))]

\* collection.update_one({"puuid": p}, {"$set": upd}): no upsert, first match only.
UpdateOne(st, p, upd) ==
  IF Matching(st, p) = {} THEN st
  ELSE [st EXCEPT ![Min(Matching(st, p))] = Some(SetFields(st[Min(Matching(st, p))][1], upd))]

\* DatabaseManager.update_player_data when update_one does not raise: both branches
\* of the modified_count test return True.
update_player_data(st, p, upd) ==
  [store |-> UpdateOne(st, p, upd), ok |-> TRUE]

\* ------------------------------------------------------------- statistics

InitStats ==
  [total_players |-> 0, updated_players |-> 0, failed_updates |-> 0,
   skipped_players |-> 0, start_time |-> NoTime, end_time |-> NoTime]

\* success_rate is the fraction num/den (the code computes a float).
SuccessRate(s) ==
  IF s.total_players > 0
    THEN [num |-> s.updated_players * 100, den |-> s.total_players]
    ELSE [num |-> 0, den |-> 1]

\* PlayerUpdater._get_update_stats: a copy of self.stats plus the derived fields.
get_update_stats(s) ==
  [total_players |-> s.total_players, updated_players |-> s.updated_players,
   failed_updates |-> s.failed_updates, skipped_players |-> s.skipped_players,
   start_time |-> s.start_time, end_time |-> s.end_time,
   has_duration |-> (s.start_time # NoTime /\ s.end_time # NoTime),
   duration_seconds |-> IF s.start_time # NoTime /\ s.end_time # NoTime
                          THEN s.end_time - s.start_time ELSE 0,
   success_rate |-> SuccessRate(s)]

\* ------------------------------------------------------------------- Init
\* The collection holds up to MaxPlayers records in slots 1, 2, ...; the record
\* of slot d was registered for puuid d or has no puuid.
InitStores ==
  {st \in [DocIds -> {None} \cup {Some(NewDoc(p, d)) : p \in Puuids \cup {0}, d \in DocIds}] :
     /\ \A d \in DocIds : st[d] \in {None, Some(NewDoc(d, d)), Some(NewDoc(0, d))}
     /\ \A d \in DocIds : (st[d] # None /\ d > 1) => st[d - 1] # None}

NoExit == -1

\* The concurrent requests the backend serves and the OAuth codes they carry.
Requests == {"r1", "r2"}
Callbacks == {"a", "b"}
Codes == {1, 2}

NoRequest == [pc |-> "none", discord_id |-> 0, puuid |-> 0, status |-> 0]
NoCallback == [pc |-> "idle", code |-> 0, status |-> 0]

\* No backend request and no bot call is in progress.
CompIdle ==
  /\ reg = [r \in Requests |-> NoRequest]
  /\ used_codes = {}
  /\ callbacks = [cb \in Callbacks |-> NoCallback]
  /\ completed = {}
  /\ bot = None
  /\ readIn = None
  /\ readOut = None

\* The updater process is not running.
MainIdle ==
  /\ mode = "library"
  /\ mainPc = "none"
  /\ running = FALSE
  /\ due = FALSE
  /\ exit_code = NoExit
  /\ signalled = FALSE
  /\ normIn = None
  /\ normOut = None

\* The updater after import: player_updater, riot_api and db_manager constructed.
InitUpdater ==
  /\ store \in InitStores
  /\ stats = InitStats
  /\ clock = 0
  /\ pc = "idle"
  /\ cycle = 0
  /\ players = <<>>
  /\ i = 0
  /\ session = "closed"
  /\ client = "none"
  /\ connect_ok = "pending"
  /\ reqKind = "none"
  /\ attempt = 0
  /\ respLog = <<>>
  /\ sleepLog = <<>>
  /\ result = None
  /\ mmr_data = None
  /\ player_data = None
  /\ writeRes = "none"
  /\ excCaught = "none"
  /\ failedBefore = 0
  /\ events = <<>>
  /\ outcomes = <<>>
  /\ httpIssued = FALSE
  /\ puuidsAtStart = PuuidsOf(store)
  /\ pendingReturn = None
  /\ returned = None

\* update_all_players called as a library function, against any upstream.
Init ==
  /\ InitUpdater
  /\ max_retries \in RetryCeilings
  /\ upstream = None
  /\ mode = "library"
  /\ mainPc = "none"
  /\ running = FALSE
  /\ due = FALSE
  /\ exit_code = NoExit
  /\ signalled = FALSE
  /\ CompIdle
  /\ normIn = None
  /\ normOut = None

\* ------------------------------------------------- update_all_players
\* Lines 30-33: entry of update_all_players.  self.stats is the instance's
\* dictionary; only start_time is assigned here.
BeginCycle ==
  /\ cycle' = cycle + 1
  /\ stats' = [stats EXCEPT !.start_time = clock]
  /\ clock' = clock + 1
  /\ pc' = "connect"
  /\ players' = <<>>
  /\ i' = 0
  /\ connect_ok' = "pending"
  /\ reqKind' = "none" /\ attempt' = 0 /\ respLog' = <<>> /\ sleepLog' = <<>>
  /\ result' = None
  /\ mmr_data' = None /\ player_data' = None /\ writeRes' = "none"
  /\ excCaught' = "none" /\ failedBefore' = stats.failed_updates
  /\ events' = <<>> /\ outcomes' = <<>> /\ httpIssued' = FALSE
  /\ puuidsAtStart' = PuuidsOf(store)
  /\ pendingReturn' = None
  /\ returned' = None
  /\ signalled' = FALSE
  /\ UNCHANGED <<store, max_retries, session, client>>

\* update_all_players is called again whenever the previous call has returned.
StartCycle ==
  /\ pc = "idle"
  /\ cycle < MaxCycles
  /\ BeginCycle
  /\ UNCHANGED extVars

\* Line 37, connect() returned True.
ConnectOk ==
  /\ pc = "connect"
  /\ client' = "open"
  /\ connect_ok' = "ok"
  /\ pc' = "list"
  /\ UNCHANGED <<store, max_retries, stats, clock, cycle, players, i, session,
                 reqVars, playerVars, events, outcomes, httpIssued, puuidsAtStart,
                 pendingReturn, returned>>
  /\ UNCHANGED extVars

\* Lines 37-38 and 53-54: connect() returned False (the ping failed), the raised
\* Exception is caught by the except clause and control reaches finally.
ConnectFail ==
  /\ pc = "connect"
  /\ client' = "open"
  /\ connect_ok' = "failed"
  /\ pc' = "finally"
  /\ UNCHANGED <<store, max_retries, stats, clock, cycle, players, i, session,
                 reqVars, playerVars, events, outcomes, httpIssued, puuidsAtStart,
                 pendingReturn, returned>>
  /\ UNCHANGED extVars

\* Lines 41-50.  get_all_puuids() answers the listing, or [] when the query raised.
\* An empty list returns _get_update_stats() from inside try: the value is
\* computed before the finally clause runs.  The query does not raise in the
\* runs against a fixed dataset, which are runs without faults.
Listings(st) ==
  IF upstream = None THEN {FindAll(st, 1), <<>>} ELSE {FindAll(st, 1)}

ListPlayers ==
  /\ pc = "list"
  /\ \E ps \in Listings(store) :
       /\ players' = ps
       /\ IF ps = <<>>
            THEN /\ pendingReturn' = Some(get_update_stats(stats))
                 /\ pc' = "finally"
                 /\ UNCHANGED <<stats, session, i>>
            ELSE /\ stats' = [stats EXCEPT !.total_players = Len(ps)]
                 /\ session' = "open"
                 /\ i' = 1
                 /\ pc' = "loop"
                 /\ UNCHANGED pendingReturn
  /\ UNCHANGED <<store, max_retries, clock, cycle, client, connect_ok,
                 reqVars, playerVars, events, outcomes, httpIssued, puuidsAtStart,
                 returned>>
  /\ UNCHANGED extVars


\* ------------------------------------------------ _update_players_batch
Puuid(player) == player.puuid

\* Mutant of NeedsDelay: the delay is taken after the last player too.
NeedsDelayAlways(idx, total_players) == idx <= total_players

\* Line 94: the rate limiting delay is taken except after the last player.
NeedsDelay(idx, total_players) == idx < total_players

\* The counters after one player's outcome (lines 73, 83, 86, 91).
Count(s, outcome) ==
  CASE outcome = "updated" -> [s EXCEPT !.updated_players = @ + 1]
    [] outcome = "failed"  -> [s EXCEPT !.failed_updates = @ + 1]
    [] outcome = "skipped" -> [s EXCEPT !.skipped_players = @ + 1]

\* Mutant of Counted: a failed player ends the loop.
CountedAbortOnFailure(outcome) ==
  /\ stats' = Count(stats, outcome)
  /\ outcomes' = Append(outcomes, outcome)
  /\ IF outcome = "failed"
       THEN pc' = "loop" /\ i' = Len(players) + 1
       ELSE IF NeedsDelay(i, Len(players))
              THEN pc' = "delay" /\ i' = i
              ELSE pc' = "loop" /\ i' = i + 1

\* Lines 141-143: _update_single_player was called by
\* update_single_player_by_puuid; its result is kept and no counter is touched.
ReturnedToTest(outcome) ==
  /\ stats' = stats
  /\ outcomes' = Append(outcomes, outcome)
  /\ pc' = "t_close"
  /\ i' = i

\* Lines 82-96: the outcome of _update_single_player is counted, then the loop
\* sleeps (pc "delay") or goes on to the next iteration.
Counted(outcome) ==
  IF mode = "test"
    THEN ReturnedToTest(outcome)
    ELSE /\ stats' = Count(stats, outcome)
         /\ outcomes' = Append(outcomes, outcome)
         /\ IF NeedsDelay(i, Len(players))
              THEN pc' = "delay" /\ i' = i
              ELSE pc' = "loop" /\ i' = i + 1

\* Lines 66-74: a player without a puuid is skipped (`continue`: no delay).
SkipPlayer ==
  /\ pc = "loop"
  /\ i <= Len(players)
  /\ Puuid(players[i]) = 0
  /\ stats' = Count(stats, "skipped")
  /\ outcomes' = Append(outcomes, "skipped")
  /\ i' = i + 1
  /\ UNCHANGED <<store, max_retries, clock, pc, cycle, players, session, client,
                 connect_ok, reqVars, playerVars, events, httpIssued, puuidsAtStart,
                 pendingReturn, returned>>
  /\ UNCHANGED extVars

\* Lines 76-80 and 100-102, riot_api.py 144-150 and 91-94: _update_single_player
\* is called and get_full_player_data starts the MMR request.
CallUpdateSingle ==
  /\ pc = "loop"
  /\ i <= Len(players)
  /\ Puuid(players[i]) # 0
  /\ events' = Append(events, <<"call", Puuid(players[i])>>)
  /\ reqKind' = "mmr" /\ attempt' = 0 /\ respLog' = <<>> /\ sleepLog' = <<>>
  /\ result' = None
  /\ mmr_data' = None /\ player_data' = None /\ writeRes' = "none"
  /\ excCaught' = "none" /\ failedBefore' = stats.failed_updates
  /\ pc' = "request"
  /\ UNCHANGED <<store, max_retries, stats, clock, cycle, players, i, session, client,
                 connect_ok, outcomes, httpIssued, puuidsAtStart, pendingReturn,
                 returned>>
  /\ UNCHANGED extVars

\* Lines 93-96: asyncio.sleep(settings.rate_limit_delay) between two players.
RateLimitDelay ==
  /\ pc = "delay"
  /\ events' = Append(events, <<"delay", 0>>)
  /\ i' = i + 1
  /\ pc' = "loop"
  /\ UNCHANGED <<store, max_retries, stats, clock, cycle, players, session, client,
                 connect_ok, reqVars, playerVars, outcomes, httpIssued, puuidsAtStart,
                 pendingReturn, returned>>
  /\ UNCHANGED extVars

\* Mutant of close_session: the session is left as it is.
close_session_skipped(sess) == sess

\* riot_api.py 40-44: an open session is closed and riot_api.session set to None.
close_session(sess) == "closed"

\* Mutant of disconnect: the client is left as it is.
disconnect_skipped(cl) == cl

\* database.py 42-46: the client, when there is one, is closed.
disconnect(cl) == IF cl = "none" THEN cl ELSE "closed"

\* Lines 50-51: the loop is exhausted, `async with riot_api` closes the session.
BatchDone ==
  /\ pc = "loop"
  /\ i > Len(players)
  /\ session' = close_session(session)
  /\ pc' = "finally"
  /\ UNCHANGED <<store, max_retries, stats, clock, cycle, players, i, client,
                 connect_ok, reqVars, playerVars, events, outcomes, httpIssued,
                 puuidsAtStart, pendingReturn, returned>>
  /\ UNCHANGED extVars

\* Lines 56-60: finally sets end_time and disconnects; the function returns the
\* value of the early return if there was one, else _get_update_stats() now.
Finally ==
  /\ pc = "finally"
  /\ stats' = [stats EXCEPT !.end_time = clock]
  /\ clock' = clock + 1
  /\ client' = disconnect(client)
  /\ returned' = IF pendingReturn # None THEN pendingReturn
                 ELSE Some(get_update_stats(stats'))
  /\ pendingReturn' = None
  /\ pc' = "idle"
  /\ UNCHANGED <<store, max_retries, cycle, players, i, session, connect_ok,
                 reqVars, playerVars, events, outcomes, httpIssued, puuidsAtStart>>
  /\ UNCHANGED extVars


\* ------------------------------------------- RiotAPIClient._make_request
\* One action is one iteration of `for attempt in range(settings.max_retries)`:
\* the GET, the branch on its outcome and the sleep that follows it.

\* Lines 79-81: the wait before a retry, skipped after the last attempt.
WaitBeforeRetry(a, n) == IF a < n - 1 THEN <<retry_delay>> ELSE <<>>

\* Lines 62-67: the sleep of the 429 branch.  Without the header the default is
\* int(settings.retry_delay); a header int() cannot parse raises ValueError, which
\* `except Exception` (line 76) catches, and control falls to lines 79-81.
RateLimitWait(header, a, n) ==
  CASE header = "absent" -> <<retry_delay>>
    [] header = "int"    -> <<RetryAfterSeconds>>
    [] header = "bad"    -> WaitBeforeRetry(a, n)

\* Mutant of MoreAttempts: one iteration too many.
MoreAttemptsOffByOne(a, n) == a < n

\* Line 54: the next iteration exists while attempt + 1 < max_retries.
MoreAttempts(a, n) == a + 1 < n

\* `continue` or the end of the loop body: the next iteration, or lines 83-84
\* ("All retry attempts failed", return None).
LoopOn ==
  /\ attempt' = attempt + 1
  /\ result' = None
  /\ pc' = IF MoreAttempts(attempt, max_retries) THEN "request" ELSE "returned"

\* Mutant of AfterRateLimit: a rate limit ends the call at once.
AfterRateLimitGiveUp ==
  /\ attempt' = attempt
  /\ result' = None
  /\ pc' = "returned"

\* Line 67: `continue` after the rate-limit sleep.
AfterRateLimit == LoopOn

\* Lines 48-50: a request is made only through an open session.
InRequest ==
  /\ pc = "request"
  /\ session = "open"

BodiesOf(kind) == IF kind = "mmr" THEN MmrBodies ELSE MatchBodies

\* What the upstream may answer to the request in flight: anything, or, when it
\* serves a fixed dataset, that player's entry (None stands for 404).
Served(answer) ==
  IF upstream = None THEN TRUE
  ELSE upstream[1][Puuid(players[i])][reqKind] = answer

\* Lines 58-61: status 200, the parsed body is returned.
Resp200 ==
  /\ InRequest
  /\ \E body \in BodiesOf(reqKind) :
       /\ Served(Some(body))
       /\ respLog' = Append(respLog, 200)
       /\ result' = Some(body)
  /\ pc' = "returned"
  /\ httpIssued' = TRUE
  /\ UNCHANGED <<store, max_retries, stats, clock, cycle, players, i, session, client,
                 connect_ok, reqKind, attempt, sleepLog, playerVars, events, outcomes,
                 puuidsAtStart, pendingReturn, returned>>
  /\ UNCHANGED extVars

\* Lines 62-67: status 429.
Resp429 ==
  /\ InRequest
  /\ \E header \in RetryAfterHeaders :
       sleepLog' = sleepLog \o RateLimitWait(header, attempt, max_retries)
  /\ respLog' = Append(respLog, 429)
  /\ AfterRateLimit
  /\ httpIssued' = TRUE
  /\ UNCHANGED <<store, max_retries, stats, clock, cycle, players, i, session, client,
                 connect_ok, reqKind, playerVars, events, outcomes,
                 puuidsAtStart, pendingReturn, returned>>
  /\ UNCHANGED extVars

\* Mutant of Resp404: 404 is retried like any other failure.
Resp404Retried ==
  /\ pc = "request"
  /\ session = "open"
  /\ respLog' = Append(respLog, 404)
  /\ sleepLog' = sleepLog \o WaitBeforeRetry(attempt, max_retries)
  /\ LoopOn
  /\ httpIssued' = TRUE
  /\ UNCHANGED <<store, max_retries, stats, clock, cycle, players, i, session, client,
                 connect_ok, reqKind, playerVars, events, outcomes,
                 puuidsAtStart, pendingReturn, returned>>
  /\ UNCHANGED extVars

\* Lines 68-70: status 404, None is returned at once.
Resp404 ==
  /\ InRequest
  /\ Served(None)
  /\ respLog' = Append(respLog, 404)
  /\ result' = None
  /\ pc' = "returned"
  /\ httpIssued' = TRUE
  /\ UNCHANGED <<store, max_retries, stats, clock, cycle, players, i, session, client,
                 connect_ok, reqKind, attempt, sleepLog, playerVars, events, outcomes,
                 puuidsAtStart, pendingReturn, returned>>
  /\ UNCHANGED extVars

\* Lines 71-81: any other status, or session.get raised (timeout, transport error).
RespFail ==
  /\ InRequest
  /\ \E status \in FailStatuses : respLog' = Append(respLog, status)
  /\ sleepLog' = sleepLog \o WaitBeforeRetry(attempt, max_retries)
  /\ LoopOn
  /\ httpIssued' = TRUE
  /\ UNCHANGED <<store, max_retries, stats, clock, cycle, players, i, session, client,
                 connect_ok, reqKind, playerVars, events, outcomes,
                 puuidsAtStart, pendingReturn, returned>>
  /\ UNCHANGED extVars

\* The call has returned and its value has been consumed by the caller.
RequestOver ==
  /\ reqKind' = "none" /\ attempt' = 0 /\ respLog' = <<>> /\ sleepLog' = <<>>
  /\ result' = None

\* -------------------------------------- RiotAPIClient.get_full_player_data
\* k when log is k answers of 429 followed by one 200, else -1.
RateLimitedThenOk(log) ==
  IF /\ log # <<>>
     /\ log[Len(log)] = 200
     /\ \A j \in 1..(Len(log) - 1) : log[j] = 429
    THEN Len(log) - 1 ELSE -1

\* Line 151: `not mmr_data or "data" not in mmr_data`.
NoMmrData(res) == IF res = None THEN TRUE ELSE res[1].data = "absent"

\* Lines 150-153, updater.py 104-106 and 85-87: no MMR data, get_full_player_data
\* returns None, _update_single_player returns False, the player is counted failed.
MmrNoData ==
  /\ pc = "returned"
  /\ reqKind = "mmr"
  /\ NoMmrData(result)
  /\ Counted("failed")
  /\ RequestOver
  /\ UNCHANGED <<store, max_retries, clock, cycle, players, session, client,
                 connect_ok, playerVars, events, httpIssued, puuidsAtStart,
                 pendingReturn, returned>>
  /\ UNCHANGED extVars

\* Lines 156-160 and 105-108, 114-117: the MMR data is kept and the companion
\* request for the most recent competitive match starts.
MmrOk ==
  /\ pc = "returned"
  /\ reqKind = "mmr"
  /\ ~NoMmrData(result)
  /\ result[1].data = "present"
  /\ mmr_data' = result
  /\ reqKind' = "matches" /\ attempt' = 0 /\ respLog' = <<>> /\ sleepLog' = <<>>
  /\ result' = None
  /\ pc' = "request"
  /\ UNCHANGED <<store, max_retries, stats, clock, cycle, players, i, session, client,
                 connect_ok, player_data, writeRes, excCaught, failedBefore, events,
                 outcomes, httpIssued, puuidsAtStart, pendingReturn, returned>>
  /\ UNCHANGED extVars

\* get_player_matches_v4 lines 110-112 and get_last_played_match_date lines
\* 119-138: the start of the most recent match, or absent.
LastPlayed(res) ==
  IF res = None THEN "absent"
  ELSE IF res[1] = "started_at" THEN "started_at" ELSE "absent"

\* Lines 163-184: the record built for the store.
BuildPlayerData(p, mmr, last_played) ==
  [puuid |-> p, current_tier |-> mmr.tier, last_played_match |-> last_played,
   last_updated |-> clock,
   update_source |-> "updater_service"]

\* Lines 156-176: dict.get(key, {}) answers None for a key that is present with
\* the value null, and the .get called on that None raises AttributeError: on
\* "data": null at line 157, on a null account at line 166, on a null current,
\* current.tier or peak in _process_mmr_data / _get_peak_rank_info (205-209,
\* 226-231).
NormalizationRaises(body) == body.data \in {"null", "nullfield"}

\* Lines 156-176 and 189-191: the normalization raised, get_full_player_data
\* catches the exception and returns None.
NormalizeFails ==
  /\ pc = "returned"
  /\ reqKind = "mmr"
  /\ ~NoMmrData(result)
  /\ NormalizationRaises(result[1])
  /\ excCaught' = "normalization"
  /\ Counted("failed")
  /\ RequestOver
  /\ UNCHANGED <<store, max_retries, clock, cycle, players, session, client,
                 connect_ok, mmr_data, player_data, writeRes,
                 failedBefore, events, httpIssued, puuidsAtStart, pendingReturn,
                 returned>>
  /\ UNCHANGED extVars

\* Mutant of PlayerDataBuilt: a companion request without a timestamp fails the
\* player.
PlayerDataBuiltOrFailed ==
  /\ pc = "returned"
  /\ reqKind = "matches"
  /\ IF LastPlayed(result) = "absent"
       THEN /\ Counted("failed")
            /\ UNCHANGED player_data
       ELSE /\ player_data' = Some(BuildPlayerData(Puuid(players[i]), mmr_data[1],
                                                   LastPlayed(result)))
            /\ pc' = "write"
            /\ UNCHANGED <<stats, i, outcomes>>
  /\ RequestOver
  /\ UNCHANGED <<store, max_retries, clock, cycle, players, session, client,
                 connect_ok, mmr_data, writeRes, excCaught,
                 failedBefore, events, httpIssued, puuidsAtStart,
                 pendingReturn, returned>>
  /\ UNCHANGED extVars

\* Lines 163-187 and updater.py 102-109: player_data is built and handed to
\* db_manager.update_player_data.
PlayerDataBuilt ==
  /\ pc = "returned"
  /\ reqKind = "matches"
  /\ player_data' = Some(BuildPlayerData(Puuid(players[i]), mmr_data[1], LastPlayed(result)))
  /\ pc' = "write"
  /\ RequestOver
  /\ UNCHANGED <<store, max_retries, stats, clock, cycle, players, i, session, client,
                 connect_ok, mmr_data, writeRes, excCaught,
                 failedBefore, events, outcomes, httpIssued, puuidsAtStart,
                 pendingReturn, returned>>
  /\ UNCHANGED extVars

\* ------------------------------------ DatabaseManager.update_player_data
\* database.py 71-85 and updater.py 109-116, 82-84: update_one ran.
Write ==
  /\ pc = "write"
  /\ LET w == update_player_data(store, player_data[1].puuid, player_data[1])
     IN /\ store' = w.store
        /\ writeRes' = IF Matching(store, player_data[1].puuid) = {}
                         THEN "nomatch" ELSE "matched"
        /\ Counted(IF w.ok THEN "updated" ELSE "failed")
  /\ UNCHANGED <<max_retries, clock, cycle, players, session, client, connect_ok,
                 reqVars, mmr_data, player_data, excCaught, failedBefore,
                 events, httpIssued, puuidsAtStart, pendingReturn, returned>>
  /\ UNCHANGED extVars

\* Mutant of WriteError: the exception escapes the loop uncounted.
WriteErrorUncaught ==
  /\ pc = "write"
  /\ writeRes' = "error"
  /\ excCaught' = "storage"
  /\ session' = "closed"
  /\ pc' = "finally"
  /\ UNCHANGED <<store, max_retries, stats, clock, cycle, players, i, client,
                 connect_ok, reqVars, mmr_data, player_data, failedBefore,
                 events, outcomes, httpIssued, puuidsAtStart, pendingReturn, returned>>
  /\ UNCHANGED extVars

\* database.py 87-89 and updater.py 85-87: update_one raised (storage failure),
\* update_player_data returns False and the player is counted failed.
WriteError ==
  /\ pc = "write"
  /\ writeRes' = "error"
  /\ excCaught' = "storage"
  /\ Counted("failed")
  /\ UNCHANGED <<store, max_retries, clock, cycle, players, session, client,
                 connect_ok, reqVars, mmr_data, player_data, failedBefore,
                 events, httpIssued, puuidsAtStart, pendingReturn, returned>>
  /\ UNCHANGED extVars

\* ------------------------------------------------------ the environment
\* The collection is shared with writers outside the updater: a record listed by
\* get_all_puuids can be gone when update_one runs for it.
ExternalRemove ==
  /\ pc \in {"loop", "request", "returned", "write", "delay"}
  /\ \E d \in DocIds :
       /\ store[d] # None
       /\ store' = [store EXCEPT ![d] = None]
  /\ UNCHANGED <<max_retries, stats, clock, pc, cycle, players, i, session, client,
                 connect_ok, reqVars, playerVars, events, outcomes, httpIssued,
                 puuidsAtStart, pendingReturn, returned>>
  /\ UNCHANGED extVars

\* ------------------------------------------------------------ the process
Next ==
  \/ StartCycle
  \/ ConnectOk
  \/ ConnectFail
  \/ ListPlayers
  \/ SkipPlayer
  \/ CallUpdateSingle
  \/ Resp200
  \/ Resp429
  \/ Resp404
  \/ RespFail
  \/ MmrNoData
  \/ MmrOk
  \/ NormalizeFails
  \/ PlayerDataBuilt
  \/ Write
  \/ WriteError
  \/ RateLimitDelay
  \/ BatchDone
  \/ Finally

Spec == Init /\ [][Next]_vars

\* Two and more runs against an upstream whose dataset does not change: every
\* request for a player is answered at once, with that player's entry, and the
\* storage does not fail.
FixedAnswers ==
  [mmr : {None} \cup {Some(b) : b \in {m \in MmrBodies : m.data \in {"absent", "present"}}},
   matches : {None, Some("started_at")}]

Datasets == [Puuids -> FixedAnswers]

InitFixed ==
  /\ InitUpdater
  /\ max_retries = 3
  /\ upstream \in {Some(ds) : ds \in Datasets}
  /\ mode = "library"
  /\ mainPc = "none"
  /\ running = FALSE
  /\ due = FALSE
  /\ exit_code = NoExit
  /\ signalled = FALSE
  /\ CompIdle
  /\ normIn = None
  /\ normOut = None

NextFixed ==
  \/ StartCycle
  \/ ConnectOk
  \/ ListPlayers
  \/ SkipPlayer
  \/ CallUpdateSingle
  \/ Resp200
  \/ Resp404
  \/ MmrNoData
  \/ MmrOk
  \/ PlayerDataBuilt
  \/ Write
  \/ RateLimitDelay
  \/ BatchDone
  \/ Finally

SpecFixed == InitFixed /\ [][NextFixed]_vars

\* The updater together with an outside writer that removes records.
NextEnv == Next \/ ExternalRemove

SpecEnv == Init /\ [][NextEnv]_vars


\* ------------------------------------------------ main.py: the process
\* The process as main() starts it: the scheduler (default), --once or --test.
\* The retry loop of _make_request is explored under Spec; here every request
\* has one attempt.
Modes == {"scheduler", "once", "test"}

InitMain ==
  /\ InitUpdater
  /\ max_retries = 1
  /\ upstream = None
  /\ mode \in Modes
  /\ mainPc = "start"
  /\ running = FALSE
  /\ due = FALSE
  /\ exit_code = NoExit
  /\ signalled = FALSE
  /\ CompIdle
  /\ normIn = None
  /\ normOut = None

\* The positions of _update_players_batch.
Iterating == pc \in {"loop", "request", "returned", "write", "delay"}

\* main.py 145-149 and 93-95: run_scheduler registers the job and runs the
\* initial update by calling scheduled_update itself.
InitialUpdate ==
  /\ mode = "scheduler"
  /\ mainPc = "start"
  /\ BeginCycle
  /\ mainPc' = "initial"
  /\ UNCHANGED <<upstream, mode, running, due, exit_code, normIn, normOut, compVars>>

\* Whether this cycle updated no player at all.
BadCycle == ~("updated" \in {outcomes[j] : j \in 1..Len(outcomes)})

\* Mutant of AfterJob: the scheduler gives up after a bad cycle.
AfterJobStopOnBad(bad) == IF bad THEN "stopped" ELSE "loop"

\* main.py 96-104: scheduled_update logs the summary, or the exception, and
\* returns to its caller in every case.
AfterJob(bad) == "loop"

\* main.py 96-104 and 152-153: the initial update has returned, self.running is
\* set and the scheduler loop is entered.
InitialDone ==
  /\ mainPc = "initial"
  /\ pc = "idle"
  /\ running' = TRUE
  /\ mainPc' = AfterJob(BadCycle)
  /\ UNCHANGED <<updaterVars, upstream, mode, due, exit_code, signalled,
                 normIn, normOut, compVars>>

\* update_interval_minutes have passed since the job was scheduled: its next_run
\* is reached, whatever the process is doing.
Tick ==
  /\ mainPc \in {"initial", "loop"}
  /\ ~due
  /\ due' = TRUE
  /\ UNCHANGED <<updaterVars, upstream, mode, mainPc, running, exit_code, signalled,
                 normIn, normOut, compVars>>

\* Mutant of SchedulerFree: the job is started whenever it is due.
SchedulerFreeAlways == mainPc \in {"initial", "loop", "job"}

\* main.py 155-158: run_pending is called from the `while self.running` loop
\* only, between two sleeps of the scheduler.
SchedulerFree == mainPc = "loop" /\ running

\* main.py 157 and 93-95: run_pending runs the due job, scheduled_update.
RunPending ==
  /\ SchedulerFree
  /\ due
  /\ cycle < MaxCycles
  /\ BeginCycle
  /\ mainPc' = "job"
  /\ UNCHANGED <<upstream, mode, running, due, exit_code, normIn, normOut, compVars>>

\* main.py 96-104: the job has returned to run_pending, which schedules its
\* next run one interval from now.
JobDone ==
  /\ mainPc = "job"
  /\ pc = "idle"
  /\ due' = FALSE
  /\ mainPc' = AfterJob(BadCycle)
  /\ UNCHANGED <<updaterVars, upstream, mode, running, exit_code, signalled,
                 normIn, normOut, compVars>>

\* main.py 155 and 167: the loop condition is false, run_scheduler returns.
LoopExit ==
  /\ mainPc = "loop"
  /\ ~running
  /\ mainPc' = "stopped"
  /\ UNCHANGED <<updaterVars, upstream, mode, running, due, exit_code, signalled,
                 normIn, normOut, compVars>>

\* main.py 84-86: SIGINT or SIGTERM while run_scheduler executes, the handler
\* clears self.running (which is still False during the initial update).  The
\* cycle's trace records a signal handled while the batch is iterating.
Signal ==
  /\ mode = "scheduler"
  /\ mainPc \in {"initial", "loop", "job"}
  /\ running \/ ~signalled
  /\ running' = FALSE
  /\ signalled' = TRUE
  /\ events' = IF Iterating THEN Append(events, <<"signal", 0>>) ELSE events
  /\ UNCHANGED <<store, max_retries, stats, clock, pc, cycle, players, i, session, client,
                 connect_ok, reqVars, playerVars, outcomes, httpIssued, puuidsAtStart,
                 pendingReturn, returned>>
  /\ UNCHANGED <<upstream, mode, mainPc, due, exit_code, normIn, normOut, compVars>>

\* Mutant of ExitCode: the process always exits 0.
ExitCodeAlwaysZero(success) == 0

\* main.py 228 and 232: sys.exit(0 if success else 1).
ExitCode(success) == IF success THEN 0 ELSE 1

\* main.py 230-231 and 108-110: --once, run_once calls update_all_players.
OnceStart ==
  /\ mode = "once"
  /\ mainPc = "start"
  /\ BeginCycle
  /\ mainPc' = "once"
  /\ UNCHANGED <<upstream, mode, running, due, exit_code, normIn, normOut, compVars>>

\* main.py 111-113 and 232: run_once returns success_rate > 0, main exits.
OnceExit ==
  /\ mainPc = "once"
  /\ pc = "idle"
  /\ exit_code' = ExitCode(returned[1].success_rate.num > 0)
  /\ mainPc' = "exited"
  /\ UNCHANGED <<updaterVars, upstream, mode, running, due, signalled, normIn, normOut, compVars>>

\* main.py 226-227, 121-123 and updater.py 122-127: --test PUUID,
\* update_single_player_by_puuid is entered with the puuid of the command line.
TestStart ==
  /\ mode = "test"
  /\ mainPc = "start"
  /\ \E p \in Puuids : players' = <<[puuid |-> p]>>
  /\ pc' = "t_connect"
  /\ mainPc' = "test"
  /\ UNCHANGED <<store, max_retries, stats, clock, cycle, i, session, client,
                 connect_ok, reqVars, playerVars, events, outcomes, httpIssued,
                 puuidsAtStart, pendingReturn, returned>>
  /\ UNCHANGED <<upstream, mode, running, due, exit_code, signalled, normIn, normOut, compVars>>

\* updater.py 127: connect() returned True.
TestConnectOk ==
  /\ pc = "t_connect"
  /\ client' = "open"
  /\ connect_ok' = "ok"
  /\ pc' = "t_find"
  /\ UNCHANGED <<store, max_retries, stats, clock, cycle, players, i, session,
                 reqVars, playerVars, events, outcomes, httpIssued, puuidsAtStart,
                 pendingReturn, returned>>
  /\ UNCHANGED extVars

\* updater.py 127-128 and 145-147: connect() returned False, the exception is
\* caught and False is returned through finally.
TestConnectFail ==
  /\ pc = "t_connect"
  /\ client' = "open"
  /\ connect_ok' = "failed"
  /\ pc' = "t_finally"
  /\ UNCHANGED <<store, max_retries, stats, clock, cycle, players, i, session,
                 reqVars, playerVars, events, outcomes, httpIssued, puuidsAtStart,
                 pendingReturn, returned>>
  /\ UNCHANGED extVars

\* updater.py 131-141 and database.py 100-107: get_player_by_puuid answers the
\* record, or None when there is none or the query raised; with a record the
\* session is opened and _update_single_player starts the MMR request.
TestFind ==
  /\ pc = "t_find"
  /\ \E found \in {Matching(store, Puuid(players[1])) # {}, FALSE} :
       IF found
         THEN /\ session' = "open"
              /\ i' = 1
              /\ events' = Append(events, <<"call", Puuid(players[1])>>)
              /\ reqKind' = "mmr" /\ attempt' = 0 /\ respLog' = <<>> /\ sleepLog' = <<>>
              /\ result' = None
              /\ pc' = "request"
         ELSE /\ pc' = "t_finally"
              /\ UNCHANGED <<session, i, events, reqVars>>
  /\ UNCHANGED <<store, max_retries, stats, clock, cycle, players, client,
                 connect_ok, playerVars, outcomes, httpIssued, puuidsAtStart,
                 pendingReturn, returned>>
  /\ UNCHANGED extVars

\* updater.py 140-143: `async with riot_api` is left, the session is closed and
\* success is returned.
TestSessionClose ==
  /\ pc = "t_close"
  /\ session' = close_session(session)
  /\ pc' = "t_finally"
  /\ UNCHANGED <<store, max_retries, stats, clock, cycle, players, i, client,
                 connect_ok, reqVars, playerVars, events, outcomes, httpIssued,
                 puuidsAtStart, pendingReturn, returned>>
  /\ UNCHANGED extVars

\* updater.py 149-150 and main.py 124-134, 228: finally disconnects,
\* test_single_player returns the result and main exits with it.
TestFinally ==
  /\ pc = "t_finally"
  /\ client' = disconnect(client)
  /\ pc' = "idle"
  /\ exit_code' = ExitCode(outcomes = <<"updated">>)
  /\ mainPc' = "exited"
  /\ UNCHANGED <<store, max_retries, stats, clock, cycle, players, i, session,
                 connect_ok, reqVars, playerVars, events, outcomes, httpIssued,
                 puuidsAtStart, pendingReturn, returned>>
  /\ UNCHANGED <<upstream, mode, running, due, signalled, normIn, normOut, compVars>>

NextMain ==
  \/ InitialUpdate
  \/ InitialDone
  \/ Tick
  \/ RunPending
  \/ JobDone
  \/ LoopExit
  \/ Signal
  \/ OnceStart
  \/ OnceExit
  \/ TestStart
  \/ TestConnectOk
  \/ TestConnectFail
  \/ TestFind
  \/ TestSessionClose
  \/ TestFinally
  \/ ConnectOk
  \/ ConnectFail
  \/ ListPlayers
  \/ SkipPlayer
  \/ CallUpdateSingle
  \/ Resp200
  \/ Resp429
  \/ Resp404
  \/ RespFail
  \/ MmrNoData
  \/ MmrOk
  \/ NormalizeFails
  \/ PlayerDataBuilt
  \/ Write
  \/ WriteError
  \/ RateLimitDelay
  \/ BatchDone
  \/ Finally

SpecMain == InitMain /\ [][NextMain]_vars

\* The process keeps executing and time keeps passing.
LiveMain == SpecMain /\ WF_vars(NextMain)

\* --------------------------------- RiotAPIClient._process_mmr_data
\* A JSON object is a function from its keys; dict.get(key, default).
EmptyDict == [k \in {} |-> 0]

Get(d, key, default) == IF key \in DOMAIN d THEN d[key] ELSE default

\* The display name the upstream gives a tier id.
TierName(id) ==
  CASE id = 0 -> "Unrated"
    [] id = 1 -> "Iron 1"
    [] id = 2 -> "Iron 2"
    [] OTHER  -> "Iron 3"

\* The rank values an MMR answer carries.
RankValues == [id : 0..3, elo : {0, 50, 100}, rr : {0, 25, 50}]

\* The answer in the nested shape: the tier is an object under data.current.
NestedShape(v) ==
  [data |-> [current |-> [tier |-> [id |-> v.id, name |-> TierName(v.id)],
                          elo |-> v.elo, rr |-> v.rr]]]

\* The answer in the flat shape: data.currenttier and data.currenttierpatched.
FlatShape(v) ==
  [data |-> [currenttier |-> v.id, currenttierpatched |-> TierName(v.id),
             elo |-> v.elo, ranking_in_tier |-> v.rr]]

\* riot_api.py 204-214 (the body has a "data" object).
process_mmr_data(mmr) ==
  LET data == mmr.data
      current_data == Get(data, "current", EmptyDict)
      tier_info == Get(current_data, "tier", EmptyDict)
  IN [currenttierpatched |-> Get(tier_info, "name", "Unrated"),
      current_tier |-> Get(tier_info, "id", 0),
      elo |-> Get(current_data, "elo", 0),
      ranking_in_tier |-> Get(current_data, "rr", 0),
      games_needed_for_rating |-> Get(current_data, "games_needed_for_rating", 0)]

\* One set of rank values arrives in both shapes; nothing else is running.
InitNorm ==
  /\ InitUpdater
  /\ store = [d \in DocIds |-> None]
  /\ max_retries = 3
  /\ upstream = None
  /\ mode = "library"
  /\ mainPc = "none"
  /\ running = FALSE
  /\ due = FALSE
  /\ exit_code = NoExit
  /\ signalled = FALSE
  /\ CompIdle
  /\ normIn \in {Some([nested |-> NestedShape(v), flat |-> FlatShape(v)]) : v \in RankValues}
  /\ normOut = [nested |-> None, flat |-> None]

\* riot_api.py 170: rank_details of the answer in the nested shape.
NormalizeNested ==
  /\ normIn # None
  /\ normOut.nested = None
  /\ normOut' = [normOut EXCEPT !.nested = Some(process_mmr_data(normIn[1].nested))]
  /\ UNCHANGED <<updaterVars, upstream, mainVars, normIn, compVars>>

\* riot_api.py 170: rank_details of the answer in the flat shape.
NormalizeFlat ==
  /\ normIn # None
  /\ normOut.flat = None
  /\ normOut' = [normOut EXCEPT !.flat = Some(process_mmr_data(normIn[1].flat))]
  /\ UNCHANGED <<updaterVars, upstream, mainVars, normIn, compVars>>

NextNorm ==
  \/ NormalizeNested
  \/ NormalizeFlat

SpecNorm == InitNorm /\ [][NextNorm]_vars

\* ------------------------------------ backend: auth.py discord_callback
\* The callbacks are coroutines of one event loop: the code between two awaits
\* is one action.  A callback that has answered can serve another request.
notAuth == <<updaterVars, upstream, mainVars, normIn, normOut, reg, bot, readVars>>

\* The callbacks that hold code c between the add at line 47 and their answer.
InProgress(c) == {cb \in Callbacks : callbacks[cb].pc # "idle" /\ callbacks[cb].code = c}

\* Mutant of Rejected: the 409 is raised inside the try block, whose except
\* clause discards the code.
RejectedInsideTry(used, code) == used \ {code}

\* auth.py 42-43: the 409 is raised before the try block, the set is not touched.
Rejected(used, code) == used

\* auth.py 42-50: a callback arrives with a code; a code in _used_codes is
\* answered 409, another one is added to the set and the token exchange starts.
CallbackArrives(cb, code) ==
  /\ callbacks[cb].pc = "idle"
  /\ IF code \in used_codes
       THEN /\ used_codes' = Rejected(used_codes, code)
            /\ callbacks' = [callbacks EXCEPT ![cb] = [pc |-> "idle", code |-> code,
                                                       status |-> 409]]
       ELSE /\ used_codes' = used_codes \cup {code}
            /\ callbacks' = [callbacks EXCEPT ![cb] = [pc |-> "token", code |-> code,
                                                       status |-> 0]]
  /\ UNCHANGED <<completed, notAuth>>

\* auth.py 50-55: get_access_token answered, the user info request starts.
TokenExchanged(cb) ==
  /\ callbacks[cb].pc = "token"
  /\ callbacks' = [callbacks EXCEPT ![cb].pc = "userinfo"]
  /\ UNCHANGED <<used_codes, completed, notAuth>>

\* auth.py 55-75: the user info was answered 200, the lookup by Discord id starts.
UserInfoOk(cb) ==
  /\ callbacks[cb].pc = "userinfo"
  /\ callbacks' = [callbacks EXCEPT ![cb].pc = "lookup"]
  /\ UNCHANGED <<used_codes, completed, notAuth>>

\* auth.py 75-86: the lookup answered and the response was built; the code
\* stays in the set.
CallbackReturns(cb) ==
  /\ callbacks[cb].pc = "lookup"
  /\ callbacks' = [callbacks EXCEPT ![cb].pc = "idle", ![cb].status = 200]
  /\ completed' = completed \cup {callbacks[cb].code}
  /\ UNCHANGED <<used_codes, notAuth>>

\* auth.py 88-92: get_access_token raised, the user info was not answered 200
\* (the HTTPException of line 58 is caught here too), the lookup or the
\* construction of the response raised: the code is discarded, 400 is answered.
CallbackFails(cb) ==
  /\ callbacks[cb].pc \in {"token", "userinfo", "lookup"}
  /\ used_codes' = used_codes \ {callbacks[cb].code}
  /\ callbacks' = [callbacks EXCEPT ![cb].pc = "idle", ![cb].status = 400]
  /\ UNCHANGED <<completed, notAuth>>

InitAuth ==
  /\ InitUpdater
  /\ store = [d \in DocIds |-> None]
  /\ max_retries = 3
  /\ upstream = None
  /\ MainIdle
  /\ CompIdle

NextAuth ==
  \/ \E cb \in Callbacks, code \in Codes : CallbackArrives(cb, code)
  \/ \E cb \in Callbacks : TokenExchanged(cb)
  \/ \E cb \in Callbacks : UserInfoOk(cb)
  \/ \E cb \in Callbacks : CallbackReturns(cb)
  \/ \E cb \in Callbacks : CallbackFails(cb)

SpecAuth == InitAuth /\ [][NextAuth]_vars

\* ------------------------------ backend: registration.py submit_registration
\* Each request is a coroutine of the backend; the code between two awaits is
\* one action.  The collection is the one the updater writes to.
RegDiscordIds == {1, 2}
RegPuuids == {1, 2}

Registered(st) == {d \in DocIds : st[d] # None}

\* database.py 207-245: find_one({"discord_id": id}) found a record (a record
\* that fails validation is answered too, as a SimpleNamespace).
get_user_by_discord_id(st, id) == {d \in Registered(st) : st[d][1].discord_id = id} # {}

\* database.py 250-254: count_documents({"puuid": p}) > 0.
user_exists(st, p) == Matching(st, p) # {}

\* Mutant of insert_one: no unique _id and no unique index on puuid.
insert_one_unchecked(st, doc) ==
  [store |-> [st EXCEPT ![Min(DocIds \ Registered(st))] = Some(doc)], ok |-> TRUE]

\* database.py 33 and 48-57: insert_one with _id = puuid under the unique index
\* on puuid; a record with that puuid makes it raise DuplicateKeyError.
insert_one(st, doc) ==
  IF Matching(st, doc.puuid) # {}
    THEN [store |-> st, ok |-> FALSE]
    ELSE [store |-> [st EXCEPT ![Min(DocIds \ Registered(st))] = Some(doc)], ok |-> TRUE]

Answer(r, code) == reg' = [reg EXCEPT ![r].pc = "done", ![r].status = code]

notReg == <<max_retries, stats, clock, pc, cycle, players, i, session, client,
            connect_ok, reqVars, playerVars, events, outcomes, httpIssued,
            puuidsAtStart, pendingReturn, returned,
            upstream, mainVars, normIn, normOut, authVars, bot, readVars>>

\* registration.py 192-198: a request arrives and queries the Discord id.
Submit(r) ==
  /\ reg[r].pc = "none"
  /\ \E d \in RegDiscordIds, p \in RegPuuids :
       reg' = [reg EXCEPT ![r] = [pc |-> "discord", discord_id |-> d, puuid |-> p,
                                  status |-> 0]]
  /\ UNCHANGED <<store, notReg>>

\* registration.py 198-203: the Discord id query answered; 409 when a record
\* has that Discord id, else the puuid is queried.
CheckDiscord(r) ==
  /\ reg[r].pc = "discord"
  /\ IF get_user_by_discord_id(store, reg[r].discord_id)
       THEN Answer(r, 409)
       ELSE reg' = [reg EXCEPT ![r].pc = "puuid"]
  /\ UNCHANGED <<store, notReg>>

\* registration.py 203-207: the puuid query answered; 409 when a record has
\* that puuid, else the player is fetched from the upstream.
CheckPuuid(r) ==
  /\ reg[r].pc = "puuid"
  /\ IF user_exists(store, reg[r].puuid)
       THEN Answer(r, 409)
       ELSE reg' = [reg EXCEPT ![r].pc = "fetch"]
  /\ UNCHANGED <<store, notReg>>

\* registration.py 207-242: the upstream answered; 404 without MMR data, else
\* the record is built and handed to create_user.
FetchPlayer(r) ==
  /\ reg[r].pc = "fetch"
  /\ \E found \in BOOLEAN :
       IF found THEN reg' = [reg EXCEPT ![r].pc = "insert"] ELSE Answer(r, 404)
  /\ UNCHANGED <<store, notReg>>

\* registration.py 242-262 and database.py 45-60: insert_one ran; its
\* DuplicateKeyError becomes a ValueError, which submit_registration answers
\* with 500.  The collection has room for MaxPlayers records.
CreateUser(r) ==
  /\ reg[r].pc = "insert"
  /\ Registered(store) # DocIds
  /\ LET ins == insert_one(store, NewDoc(reg[r].puuid, reg[r].discord_id))
     IN /\ store' = ins.store
        /\ Answer(r, IF ins.ok THEN 200 ELSE 500)
  /\ UNCHANGED notReg

\* Registrations run while the updater runs cycles without faults: the upstream
\* has rank data and a recent match for every player.
FullDataset ==
  [p \in Puuids |-> [mmr |-> Some([data |-> "present", tier |-> 1]),
                     matches |-> Some("started_at")]]

InitReg ==
  /\ InitUpdater
  /\ \A d \in Registered(store) : store[d][1].puuid # 0
  /\ max_retries = 1
  /\ upstream = Some(FullDataset)
  /\ MainIdle
  /\ CompIdle

NextReg ==
  \/ \E r \in Requests : Submit(r)
  \/ \E r \in Requests : CheckDiscord(r)
  \/ \E r \in Requests : CheckPuuid(r)
  \/ \E r \in Requests : FetchPlayer(r)
  \/ \E r \in Requests : CreateUser(r)
  \/ StartCycle
  \/ ConnectOk
  \/ ListPlayers
  \/ CallUpdateSingle
  \/ Resp200
  \/ MmrOk
  \/ PlayerDataBuilt
  \/ Write
  \/ RateLimitDelay
  \/ BatchDone
  \/ Finally

SpecReg == InitReg /\ [][NextReg]_vars

\* ------------------------- Discord bot: DiscordBotRunner.update_discord_roles
\* One call for one guild member; the guild has every role the bot looks up.
ALPHA_RANKS == {"Diamond"}        \* of 'Diamond', 'Ascendant', 'Radiant', 'Immortal'
OMEGA_RANKS == {"Gold"}           \* of 'Bronze', 'Silver', 'Gold', 'Platinum', 'Iron'
GuildRoles == {"Manual", "Verified", "Unverified", "Alpha", "Omega", "Diamond", "Gold"}

notBot == <<updaterVars, upstream, mainVars, normIn, normOut, reg, authVars, readVars>>

\* discord_bots.py 255-281: the roles of a rank tier.
get_new_roles(rank_tier) ==
  IF rank_tier \in ALPHA_RANKS THEN {"Alpha", rank_tier, "Verified"}
  ELSE IF rank_tier \in OMEGA_RANKS THEN {"Omega", rank_tier, "Verified"}
  ELSE {}

\* The member as the call finds it: its roles, and whether a record of the
\* database response has its Discord id, with which rank tier.
InitBot ==
  /\ InitUpdater
  /\ store = [d \in DocIds |-> None]
  /\ max_retries = 3
  /\ upstream = None
  /\ MainIdle
  /\ reg = [r \in Requests |-> NoRequest]
  /\ used_codes = {}
  /\ callbacks = [cb \in Callbacks |-> NoCallback]
  /\ completed = {}
  /\ readIn = None
  /\ readOut = None
  /\ bot \in {Some([pc |-> "start", roles |-> rs, nick |-> "none", in_db |-> f,
                    rank_tier |-> t, new_roles |-> {}]) :
                rs \in SUBSET GuildRoles, f \in BOOLEAN,
                t \in ALPHA_RANKS \cup OMEGA_RANKS \cup {"Unknown"}}

\* discord_bots.py 196-221: member.edit(nick=...) ran, or raised and was logged.
Nicknames(nick, tag) == {tag, nick}

\* discord_bots.py 302-318: the member is in the database response, the
\* nickname is updated with the rank tier.
BotNickname ==
  /\ bot # None
  /\ bot[1].pc = "start"
  /\ bot[1].in_db
  /\ \E n \in Nicknames(bot[1].nick, bot[1].rank_tier) :
       bot' = Some([bot[1] EXCEPT !.nick = n, !.pc = "check"])
  /\ UNCHANGED notBot

\* discord_bots.py 320-328: with the "Manual" role the call returns, else the
\* roles of the rank tier are handed to update_roles.
BotManualCheck ==
  /\ bot # None
  /\ bot[1].pc = "check"
  /\ bot' = IF "Manual" \in bot[1].roles
              THEN Some([bot[1] EXCEPT !.pc = "done"])
              ELSE Some([bot[1] EXCEPT !.pc = "remove",
                                       !.new_roles = get_new_roles(bot[1].rank_tier)])
  /\ UNCHANGED notBot

\* discord_bots.py 330-334: the member is not in the database response,
\* update_roles is called with the "Unverified" role.
BotNotFound ==
  /\ bot # None
  /\ bot[1].pc = "start"
  /\ ~bot[1].in_db
  /\ bot' = Some([bot[1] EXCEPT !.pc = "remove", !.new_roles = {"Unverified"}])
  /\ UNCHANGED notBot

\* Where update_discord_roles continues after update_roles (lines 328, 335).
AfterUpdateRoles(b) == IF b.in_db THEN "done" ELSE "nick"

\* discord_bots.py 233-239 and 248-253: every role of the member is removed; if
\* remove_roles raises, update_roles logs it and returns.
BotRemoveRoles ==
  /\ bot # None
  /\ bot[1].pc = "remove"
  /\ \E removed \in BOOLEAN :
       bot' = IF bot[1].roles = {} \/ removed
                THEN Some([bot[1] EXCEPT !.roles = {}, !.pc = "add"])
                ELSE Some([bot[1] EXCEPT !.pc = AfterUpdateRoles(bot[1])])
  /\ UNCHANGED notBot

\* discord_bots.py 241-253: the new roles are added; if add_roles raises,
\* update_roles logs it and returns.
BotAddRoles ==
  /\ bot # None
  /\ bot[1].pc = "add"
  /\ \E added \in BOOLEAN :
       bot' = Some([bot[1] EXCEPT
                      !.roles = IF added THEN @ \cup bot[1].new_roles ELSE @,
                      !.pc = AfterUpdateRoles(bot[1])])
  /\ UNCHANGED notBot

\* discord_bots.py 335: the nickname of a member that is not in the database.
BotNicknameUnverified ==
  /\ bot # None
  /\ bot[1].pc = "nick"
  /\ \E n \in Nicknames(bot[1].nick, "Unverified") :
       bot' = Some([bot[1] EXCEPT !.nick = n, !.pc = "done"])
  /\ UNCHANGED notBot

NextBot ==
  \/ BotNickname
  \/ BotManualCheck
  \/ BotNotFound
  \/ BotRemoveRoles
  \/ BotAddRoles
  \/ BotNicknameUnverified

SpecBot == InitBot /\ [][NextBot]_vars

\* --------------------------------------------- readers of stored records
\* rank_details as submit_registration stores it (registration.py 104-116):
\* the rank values under "data", beside "status".
StoredNested(v) ==
  [data |-> [currenttier |-> v.id, currenttierpatched |-> TierName(v.id),
             elo |-> v.elo, ranking_in_tier |-> v.rr],
   status |-> 200]

\* rank_details as the updater stores it (riot_api.py 170 and 208-214): flat.
StoredFlat(v) == process_mmr_data(NestedShape(v))

\* What a reader obtained: the current tier and the rating, each None when the
\* reader's answer does not carry it; ok is FALSE when the reader raised.
Obtained(tier, elo) == [ok |-> TRUE, tier |-> tier, elo |-> elo]

\* The value at a field path of an aggregation ("$rank_details.a.b"), None
\* when the path is missing.
Field(d, path) ==
  IF Len(path) = 1
    THEN (IF path[1] \in DOMAIN d THEN Some(d[path[1]]) ELSE None)
    ELSE (IF path[1] \in DOMAIN d
            THEN (IF path[2] \in DOMAIN d[path[1]] THEN Some(d[path[1]][path[2]]) ELSE None)
            ELSE None)

IfNull(x, y) == IF x # None THEN x ELSE y

\* database.py 132-145: the $project stage of get_leaderboard.
get_leaderboard(rd) ==
  Obtained(IfNull(Field(rd, <<"data", "currenttierpatched">>), Field(rd, <<"currenttierpatched">>)),
           IfNull(Field(rd, <<"data", "elo">>), Field(rd, <<"elo">>)))

\* leaderboard.py 117-136: the $project stage of find_user_in_leaderboard; the
\* fields of LeaderboardEntry are optional.
find_user_in_leaderboard(rd) ==
  Obtained(Field(rd, <<"data", "currenttierpatched">>), Field(rd, <<"data", "elo">>))

\* models/user.py 41-44: RankDetails requires "data" and "status".
ValidRankDetails(rd) == {"data", "status"} \subseteq DOMAIN rd

\* database.py 62-73: UserInDB(**user_doc); a validation error is re-raised.
get_user_by_puuid(rd) ==
  IF ValidRankDetails(rd)
    THEN Obtained(Some(rd.data.currenttierpatched), Some(rd.data.elo))
    ELSE [ok |-> FALSE, tier |-> None, elo |-> None]

\* database.py 207-245: UserInDB(**user_doc) or, when the validation fails, a
\* SimpleNamespace whose rank_details.data carries currenttierpatched only.
user_by_discord_id(rd) ==
  IF ValidRankDetails(rd)
    THEN Obtained(Some(rd.data.currenttierpatched), Some(rd.data.elo))
    ELSE IF "data" \in DOMAIN rd
           THEN Obtained(Field(rd, <<"data", "currenttierpatched">>), None)
           ELSE Obtained(Field(rd, <<"currenttierpatched">>), None)

\* discord_bots.py 304-312: the rank the role sync reads; it reads no rating.
update_discord_roles_rank(rd) ==
  IF "data" \in DOMAIN rd
    THEN Obtained(IfNull(Field(rd, <<"data", "currenttierpatched">>), Some("Unknown")), None)
    ELSE Obtained(IfNull(Field(rd, <<"currenttierpatched">>), Some("Unknown")), None)

Readers == {"listing", "search", "by_puuid", "by_discord_id", "role_sync"}
Shapes == {"nested", "flat"}

notRead == <<updaterVars, upstream, mainVars, normIn, normOut, reg, authVars, bot, readIn>>

\* One record's rank values are stored in both shapes; nothing else is running.
InitRead ==
  /\ InitUpdater
  /\ store = [d \in DocIds |-> None]
  /\ max_retries = 3
  /\ upstream = None
  /\ MainIdle
  /\ reg = [r \in Requests |-> NoRequest]
  /\ used_codes = {}
  /\ callbacks = [cb \in Callbacks |-> NoCallback]
  /\ completed = {}
  /\ bot = None
  /\ readIn \in {Some([nested |-> StoredNested(v), flat |-> StoredFlat(v)]) : v \in RankValues}
  /\ readOut = Some([rdr \in Readers |-> [sh \in Shapes |-> None]])

\* The reader reads the record stored in shape sh.
Reads(rdr, sh, obtained) ==
  /\ readIn # None
  /\ readOut[1][rdr][sh] = None
  /\ readOut' = Some([readOut[1] EXCEPT ![rdr][sh] = Some(obtained)])
  /\ UNCHANGED notRead

ReadListing == \E sh \in Shapes : Reads("listing", sh, get_leaderboard(readIn[1][sh]))

ReadSearch == \E sh \in Shapes : Reads("search", sh, find_user_in_leaderboard(readIn[1][sh]))

ReadByPuuid == \E sh \in Shapes : Reads("by_puuid", sh, get_user_by_puuid(readIn[1][sh]))

ReadByDiscordId ==
  \E sh \in Shapes : Reads("by_discord_id", sh, user_by_discord_id(readIn[1][sh]))

ReadRoleSync ==
  \E sh \in Shapes : Reads("role_sync", sh, update_discord_roles_rank(readIn[1][sh]))

NextRead ==
  \/ ReadListing
  \/ ReadSearch
  \/ ReadByPuuid
  \/ ReadByDiscordId
  \/ ReadRoleSync

SpecRead == InitRead /\ [][NextRead]_vars

\* ================================================================ properties
HasPuuid(player) == player.puuid # 0

\* The puuids of the _update_single_player calls of the trace, in order.
CallsOf(ev) ==
  LET c == SelectSeq(ev, LAMBDA e : e[1] = "call")
  IN [j \in 1..Len(c) |-> c[j][2]]

\* The puuids of the players of a listing that have one, in list order.
PuuidsListed(ps) ==
  LET c == SelectSeq(ps, HasPuuid)
  IN [j \in 1..Len(c) |-> c[j].puuid]

\* How many players of the listing the loop has taken so far.
Taken ==
  IF pc \in {"request", "returned", "write", "delay"} THEN i
  ELSE IF players # <<>> THEN i - 1 ELSE 0

BatchOver == pc \in {"finally", "idle"} /\ players # <<>>

AllOf(log, S) == log # <<>> /\ \A j \in 1..Len(log) : log[j] \in S

Last(seq) == seq[Len(seq)]

\* ---------------------------------------------------------------------- C1
C1_Inv ==
  /\ CallsOf(events) = PuuidsListed(SubSeq(players, 1, Taken))
  /\ BatchOver => Taken = Len(players)

C1_Step ==
  (pc = "returned" /\ reqKind = "mmr" /\ NoMmrData(result))
    => /\ stats' = Count(stats, "failed")
       /\ pc' \in {"delay", "loop"}
       /\ players' = players

\* C1: in _update_players_batch every listed player that has a puuid gets exactly
\* one call of _update_single_player, in list order, whatever happened to the
\* players before it; a player whose fetch yields no data is counted in
\* failed_updates and the loop goes on.
C1_EveryPlayerUpdatedOnce == [][C1_Inv' /\ C1_Step]_vars

\* A finished cycle over two players in which the first one failed.
C1_Witness ==
  /\ pc = "idle"
  /\ returned # None
  /\ outcomes = <<"failed", "updated">>
  /\ CallsOf(events) = <<1, 2>>

\* ---------------------------------------------------------------------- C2
\* C2: the stats returned by update_all_players describe that cycle only:
\* total_players is the number of players listed in this cycle, updated + failed
\* + skipped = total_players, success_rate = 100 * updated / total_players (0 when
\* total_players = 0), hence 0 <= success_rate <= 100.
C2_StatsDescribeCycle ==
  (pc = "idle" /\ returned # None) =>
    LET r == returned[1]
    IN /\ r.total_players = Len(players)
       /\ r.updated_players + r.failed_updates + r.skipped_players = r.total_players
       /\ r.success_rate = IF r.total_players = 0 THEN [num |-> 0, den |-> 1]
                           ELSE [num |-> 100 * r.updated_players, den |-> r.total_players]
       /\ 0 <= r.success_rate.num
       /\ r.success_rate.num <= 100 * r.success_rate.den

\* ---------------------------------------------------------------------- C3
C3_Inv ==
  /\ pc = "request" => Len(respLog) < max_retries
  /\ (pc = "returned" /\ AllOf(respLog, FailStatuses))
       => (Len(respLog) = max_retries /\ result = None)

C3_Step ==
  (pc = "returned" /\ reqKind = "mmr" /\ AllOf(respLog, FailStatuses))
    => /\ stats' = Count(stats, "failed")
       /\ outcomes' = Append(outcomes, "failed")

\* C3: when every attempt of a request is answered with status 500 or ends in a
\* timeout or transport error, _make_request issues exactly max_retries requests
\* and returns None, and the orchestrator counts that player in failed_updates.
C3_RetriesExhausted == [][C3_Inv' /\ C3_Step]_vars

\* The MMR call has returned after three failed attempts under a ceiling of 3.
C3_Witness ==
  /\ pc = "returned"
  /\ reqKind = "mmr"
  /\ max_retries = 3
  /\ respLog = <<500, TransportError, 500>>
  /\ result = None

\* ---------------------------------------------------------------------- C4
\* The call returned a body with a data object.
UsableMmr(res) == IF res = None THEN FALSE ELSE res[1].data = "present"

C4_Inv ==
  /\ (pc = "returned" /\ RateLimitedThenOk(respLog) >= 0)
       => (RateLimitedThenOk(respLog) < max_retries /\ result # None)
  /\ (pc = "request" /\ AllOf(respLog, {429})) => Len(respLog) < max_retries
  /\ (pc = "returned" /\ AllOf(respLog, {429}))
       => (Len(respLog) = max_retries /\ result = None)

C4_Step ==
  /\ (pc = "returned" /\ reqKind = "mmr" /\ RateLimitedThenOk(respLog) >= 0
        /\ UsableMmr(result))
       => (mmr_data' = result /\ stats' = stats /\ reqKind' = "matches")
  /\ (pc = "write" /\ writeRes' = "matched") => stats' = Count(stats, "updated")

\* C4: a request answered by k 429s and then a 200 returns the body of the 200,
\* as an immediate 200 does, when k < max_retries, and the orchestrator goes on
\* to count the player as a success; only max_retries 429s in a row make the
\* call fail, after exactly max_retries requests.
C4_BackoffTransparent == [][C4_Inv' /\ C4_Step]_vars

\* The MMR call has returned data after two 429s under a ceiling of 3.
C4_Witness ==
  /\ pc = "returned"
  /\ reqKind = "mmr"
  /\ max_retries = 3
  /\ respLog = <<429, 429, 200>>
  /\ UsableMmr(result)

\* ---------------------------------------------------------------------- C5
\* C5: a 404 ends the call: one request when the upstream answers 404, no
\* backoff sleep after it, no retry, and the call returns None, whatever
\* max_retries is.
C5_NotFoundNoRetry ==
  /\ \A j \in 1..Len(respLog) :
       respLog[j] = 404 => (j = Len(respLog) /\ pc = "returned" /\ result = None
                            /\ Len(sleepLog) <= j - 1)
  /\ (respLog # <<>> /\ respLog[1] = 404) => (Len(respLog) = 1 /\ sleepLog = <<>>)

\* The call was answered 404 at once under a ceiling of 3.
C5_Witness ==
  /\ pc = "returned"
  /\ max_retries = 3
  /\ respLog = <<404>>
  /\ result = None

\* ---------------------------------------------------------------------- C6
AllHaveIds == \A j \in 1..Len(players) : HasPuuid(players[j])

\* C6: over n players that all have ids the cycle is call, delay, call, ...,
\* call: one _update_single_player at a time, one rate_limit_delay between two
\* consecutive players, n - 1 delays in all and none after the last player.
C6_DelaysBetweenPlayers ==
  AllHaveIds =>
    /\ \A j \in 1..Len(events) :
         IF j % 2 = 1
           THEN events[j] = <<"call", players[(j + 1) \div 2].puuid>>
           ELSE events[j] = <<"delay", 0>>
    /\ Len(CallsOf(events)) - Len(outcomes)
         = IF pc \in {"request", "returned", "write"} THEN 1 ELSE 0
    /\ BatchOver => Len(events) = 2 * Len(players) - 1

\* A finished cycle over two players with ids: one delay, between the calls.
C6_Witness ==
  /\ pc = "idle"
  /\ returned # None
  /\ Len(players) = 2
  /\ AllHaveIds
  /\ events = << <<"call", 1>>, <<"delay", 0>>, <<"call", 2>> >>

\* ---------------------------------------------------------------------- C7
\* C7: when db_manager.connect fails the cycle issues no upstream request and
\* returns stats with updated_players = 0 and success_rate = 0, in the first and
\* in any later cycle.
C7_StorageUnavailable ==
  (pc = "idle" /\ returned # None /\ connect_ok = "failed") =>
    /\ ~httpIssued
    /\ returned[1].updated_players = 0
    /\ returned[1].success_rate.num = 0

\* ---------------------------------------------------------------------- C8
C8_Inv ==
  /\ (pc = "idle" /\ cycle > 0) => returned # None
  /\ excCaught # "none"
       => (stats.failed_updates = failedBefore + 1 /\ "failed" \in {outcomes[j] : j \in 1..Len(outcomes)})
  /\ BatchOver => Len(outcomes) = Len(players)

C8_Step ==
  /\ (pc = "request" /\ respLog' = Append(respLog, TransportError))
       => (stats' = stats /\ pc' \in {"request", "returned"})
  /\ (excCaught = "none" /\ excCaught' # "none" /\ pc # "idle")
       => (stats' = Count(stats, "failed") /\ pc' \in {"delay", "loop"})

\* C8: update_all_players always returns a stats object; an exception raised
\* while one player is processed (fetch, normalization, storage write) is caught,
\* adds exactly one to failed_updates, and the remaining players are processed.
C8_ExceptionsContained == [][C8_Inv' /\ C8_Step]_vars

\* A finished cycle whose first player hit a storage exception and whose second
\* player was still processed.
C8_Witness ==
  /\ pc = "idle"
  /\ returned # None
  /\ Len(players) = 2
  /\ Len(outcomes) = 2
  /\ outcomes[1] = "failed"
  /\ excCaught = "storage"
  /\ CallsOf(events) = <<1>>

\* ---------------------------------------------------------------------- C9
\* C9: update_player_data fails when no stored record has the puuid and creates
\* no record, so the orchestrator does not count the player as updated.
C9_WriteNotFound ==
  [][(pc = "write" /\ pc' # "write" /\ Matching(store, player_data[1].puuid) = {})
       => (store' = store /\ stats'.updated_players = stats.updated_players)]_vars

\* --------------------------------------------------------------------- C10
\* C10: an update cycle changes no record's puuid and adds or removes no record:
\* slot by slot the puuids of the store are those of the start of the cycle.
C10_PuuidsUnchanged == PuuidsOf(store) = puuidsAtStart

\* A finished cycle with one success and one failure.
C10_Witness ==
  /\ pc = "idle"
  /\ returned # None
  /\ outcomes = <<"updated", "failed">>
  /\ store[1][1].update_source = "updater_service"

\* --------------------------------------------------------------------- C11
\* The fields get_full_player_data puts into player_data.
ProducedFields(doc) ==
  [puuid |-> doc.puuid, current_tier |-> doc.current_tier,
   last_played_match |-> doc.last_played_match, last_updated |-> doc.last_updated,
   update_source |-> doc.update_source]

\* The fields of a record the updater never produces.
KeptFields(doc) == [discord_id |-> doc.discord_id, region |-> doc.region]

\* C11: a successful update_player_data is a merge: the matched record takes the
\* fields of player_data, keeps its discord_id and region, and every other
\* record is left as it was; no other step of the cycle changes the collection.
C11_MergeNotReplace ==
  [][IF pc = "write" /\ writeRes' = "matched"
       THEN LET d0 == Min(Matching(store, player_data[1].puuid))
            IN /\ ProducedFields(store'[d0][1]) = player_data[1]
               /\ KeptFields(store'[d0][1]) = KeptFields(store[d0][1])
               /\ \A d \in DocIds \ {d0} : store'[d] = store[d]
       ELSE store' = store]_vars

\* The first of two records has been updated: it carries the upstream's values
\* and its registration fields, the second record is as registered.
C11_Witness ==
  /\ pc = "delay"
  /\ writeRes = "matched"
  /\ store[1] = Some([puuid |-> 1, discord_id |-> 1, region |-> "ap", current_tier |-> 1,
                       last_played_match |-> "started_at", last_updated |-> 1,
                       update_source |-> "updater_service"])
  /\ store[2] = Some(NewDoc(2, 2))

\* --------------------------------------------------------------------- C12
\* A record without its update timestamp.
WithoutTimestamp(slot) ==
  IF slot = None THEN None ELSE Some([slot[1] EXCEPT !.last_updated = NoTime])

StoredValues(st) == [d \in DocIds |-> WithoutTimestamp(st[d])]

SignalHandled ==
  \E j \in 1..Len(events) : \E k \in (j + 1)..Len(events) :
    events[j][1] = "call" /\ events[k] = <<"signal", 0>>

\* C13: once SIGINT/SIGTERM has cleared the stop flag while the batch of a
\* scheduled cycle is iterating, the player in flight is finished but no further
\* player's fetch is started in that cycle.
C13_StopBetweenPlayers ==
  [][(SignalHandled /\ pc = "loop") => pc' # "request"]_vars

\* --------------------------------------------------------------------- C14
\* C14: in scheduled mode update_all_players is entered only when no cycle is in
\* progress, also when the job came due while a cycle was still running.
C14_NoOverlap ==
  [][(mode = "scheduler" /\ cycle' # cycle) => (pc = "idle" /\ pc' = "connect")]_vars

\* The initial cycle is still running although the interval has passed: the job
\* is due and has not been started.
C14_Witness ==
  /\ mode = "scheduler"
  /\ mainPc = "initial"
  /\ cycle = 1
  /\ due
  /\ pc = "delay"

\* --------------------------------------------------------------------- C15
\* update_all_players or update_single_player_by_puuid has returned.
RunReturned ==
  IF mode = "test" THEN mainPc = "exited" ELSE pc = "idle" /\ cycle > 0

C15_Inv == RunReturned => (session = "closed" /\ client = "closed")

C15_Step == Len(respLog') > Len(respLog) => (session = "open" /\ client = "open")

\* C15: when update_all_players or update_single_player_by_puuid has returned,
\* in every outcome, riot_api.session is closed and the storage client has been
\* disconnected; every upstream request is issued through an open session.
C15_ClosedAtRunEnd == [][C15_Inv' /\ C15_Step]_vars

\* A --once cycle has returned after upstream requests and a failed player.
C15_Witness ==
  /\ mode = "once"
  /\ pc = "idle"
  /\ returned # None
  /\ httpIssued
  /\ outcomes = <<"failed">>
  /\ session = "closed"
  /\ client = "closed"

\* --------------------------------------------------------------------- C16
\* C16: --once exits 0 exactly when the returned success_rate is above 0, that
\* is when the cycle updated a player, and 1 otherwise, as when no player is
\* listed or the storage is unavailable; --test exits 0 exactly when the
\* player's record was written.
C16_ExitCodes ==
  /\ (mode = "once" /\ mainPc = "exited") =>
       /\ exit_code = IF returned[1].success_rate.num > 0 THEN 0 ELSE 1
       /\ exit_code = IF BadCycle THEN 1 ELSE 0
       /\ (players = <<>> \/ connect_ok = "failed") => exit_code = 1
  /\ (mode = "test" /\ mainPc = "exited") =>
       exit_code = IF writeRes = "matched" THEN 0 ELSE 1
  /\ mainPc # "exited" => exit_code = NoExit

\* --once has exited 0 after a cycle with one failure and one success.
C16_Witness ==
  /\ mode = "once"
  /\ mainPc = "exited"
  /\ exit_code = 0
  /\ outcomes = <<"failed", "updated">>

\* --------------------------------------------------------------------- C17
\* A cycle of the scheduler that updated no player has returned, and the bound
\* on the number of cycles leaves room for a further one.
BadCycleReturned ==
  /\ mode = "scheduler"
  /\ mainPc \in {"initial", "job"}
  /\ pc = "idle"
  /\ cycle < MaxCycles
  /\ BadCycle

\* C17: in scheduled mode a cycle without a single success (no player updated,
\* no player listed, storage unavailable) returns control to the scheduler loop;
\* run_scheduler stops only when the stop flag was cleared, which no step of a
\* cycle does, and otherwise a further cycle is started.
C17_SchedulerSurvivesBadCycle ==
  /\ [][(mainPc \in {"initial", "job"} /\ pc = "idle" /\ BadCycle /\ mainPc' # mainPc)
          => mainPc' = "loop"]_vars
  /\ [][(mainPc # "stopped" /\ mainPc' = "stopped") => ~running]_vars
  /\ [][(running /\ ~running') => (pc' = pc /\ mainPc' = mainPc)]_vars
  /\ BadCycleReturned ~> (pc = "connect" \/ mainPc = "stopped")

\* A scheduled cycle has been started after an initial cycle in which both
\* players failed.
C17_Witness ==
  /\ mode = "scheduler"
  /\ mainPc = "job"
  /\ cycle = 2
  /\ running
  /\ pc = "connect"
  /\ stats.updated_players = 0
  /\ stats.failed_updates = 2

\* --------------------------------------------------------------------- C18
\* C18: while every attempt of a request fails (status 500, timeout, transport
\* error), the wait after the k-th failed attempt is k x retry_delay, so the
\* waits of one request strictly increase.
C18_EscalatingRetryDelay ==
  AllOf(respLog, FailStatuses) =>
    \A k \in 1..Len(sleepLog) : sleepLog[k] = k * retry_delay

\* --------------------------------------------------------------------- C19
\* The wait after answer j was the default, not a Retry-After value.
DefaultWait(j) == respLog[j] = 429 /\ sleepLog[j] # RetryAfterSeconds

\* C19: after a 429 the client sleeps the Retry-After value or, without the
\* header, a default that grows with the attempt index: of two default waits of
\* one request the later one is the longer.
C19_RateLimitWaitEscalates ==
  AllOf(respLog, {429}) =>
    \A j \in 1..Len(sleepLog) : \A k \in (j + 1)..Len(sleepLog) :
      (DefaultWait(j) /\ DefaultWait(k)) => sleepLog[j] < sleepLog[k]

\* --------------------------------------------------------------------- C20
\* C20: an answer in the nested shape and one in the flat shape that carry the
\* same rank values are normalized to the same rank_details.
C20_ShapesNormalizeAlike ==
  (normIn # None /\ normOut.nested # None /\ normOut.flat # None)
    => normOut.nested = normOut.flat

\* --------------------------------------------------------------------- C30
\* C30: every backoff sleep of a _make_request call is followed by another HTTP
\* request of the same call: when the call returns it has slept fewer times
\* than it has issued requests, so at most max_retries - 1 times.
C30_NoSleepAfterFinalAttempt ==
  (pc = "returned" /\ reqKind # "none") =>
    /\ Len(sleepLog) < Len(respLog)
    /\ Len(sleepLog) <= max_retries - 1

\* --------------------------------------------------------------------- C23
\* The companion request returned without a usable timestamp: 404, retries
\* exhausted, or a body without data or without metadata.started_at.
CompanionFailed ==
  /\ pc = "returned"
  /\ reqKind = "matches"
  /\ IF result = None THEN TRUE ELSE result[1] \in {"nodata", "nometadata"}

C24_ReturnedCarriesDuration ==
  (pc = "idle" /\ returned # None) =>
    /\ returned[1].end_time # NoTime
    /\ returned[1].end_time >= returned[1].start_time
    /\ returned[1].start_time = stats.start_time

\* --------------------------------------------------------------------- C22
\* The MMR request returned a 200 body whose "data" is an object.
HasDataObject ==
  /\ pc = "returned"
  /\ reqKind = "mmr"
  /\ IF result = None THEN FALSE ELSE result[1].data \in {"present", "nullfield"}

\* C22: a 200 rank body with a data object never makes the normalization fail,
\* whichever optional fields are missing or null: no exception is raised, the
\* player is not counted failed and the companion request is started.
C22_ShapeNeverFails ==
  [][HasDataObject =>
       /\ excCaught' = "none"
       /\ stats' = stats
       /\ pc' = "request"
       /\ reqKind' = "matches"]_vars

\* --------------------------------------------------------------------- C26
\* C26: once a signal has been delivered to run_scheduler, during the initial
\* update too, no further update cycle is started and run_scheduler returns
\* (signalled records a signal until the step that starts a further cycle).
C26_SignalStopsScheduler ==
  /\ [][signalled => cycle' = cycle]_vars
  /\ signalled ~> (mainPc = "stopped")

\* --------------------------------------------------------------------- C28
C28_Inv ==
  /\ \A c \in Codes : c \in used_codes <=> (InProgress(c) # {} \/ c \in completed)
  /\ \A c \in Codes : Cardinality(InProgress(c)) <= 1

C28_Step ==
  \A cb \in Callbacks :
    /\ (callbacks[cb].pc = "idle" /\ callbacks'[cb] # callbacks[cb]
          /\ callbacks'[cb].code \in completed)
         => (callbacks'[cb].pc = "idle" /\ callbacks'[cb].status = 409)
    /\ (callbacks[cb].pc # "idle" /\ callbacks'[cb].status = 400)
         => callbacks[cb].code \notin used_codes'

\* C28: a code is in _used_codes exactly while a callback is exchanging it or
\* after a callback for it returned normally; no two callbacks exchange the same
\* code at once, a callback with a completed code is answered 409, and the code
\* of a failed callback is removed from the set.
C28_UsedCodesGuard == [][C28_Inv' /\ C28_Step]_vars

\* Code 1 was exchanged by a callback that returned and a later callback with
\* it was answered 409; the callback for code 2 failed and the code was removed.
C28_Witness ==
  /\ completed = {1}
  /\ callbacks["b"] = [pc |-> "idle", code |-> 1, status |-> 409]
  /\ callbacks["a"] = [pc |-> "idle", code |-> 2, status |-> 400]
  /\ used_codes = {1}

\* --------------------------------------------------------------------- C25
UniquePuuids(st) ==
  \A d1, d2 \in Registered(st) : d1 # d2 => st[d1][1].puuid # st[d2][1].puuid

C25_Step ==
  \A r \in Requests :
    (reg[r].pc # "done" /\ reg'[r].pc = "done") =>
      /\ user_exists(store, reg[r].puuid) => reg'[r].status # 200
      /\ reg'[r].status # 200 => store' = store

\* C25: whatever the interleaving of submit_registration requests and update
\* cycles, no two records have the same puuid, and a request that ends while a
\* record has its puuid is rejected and leaves the collection as it was.
C25_PuuidUnique == [][UniquePuuids(store') /\ C25_Step]_vars

\* Two requests for puuid 1 both passed the puuid check; the first insert
\* created the record, the second raised DuplicateKeyError and was answered 500.
C25_Witness ==
  /\ reg["r1"].pc = "done" /\ reg["r2"].pc = "done"
  /\ reg["r1"].puuid = 1 /\ reg["r2"].puuid = 1
  /\ {reg["r1"].status, reg["r2"].status} = {200, 500}
  /\ Cardinality(Matching(store, 1)) = 1
  /\ cycle > 0

\* --------------------------------------------------------------------- C27
\* C27: whatever the interleaving of submit_registration requests, no two
\* records have the same discord_id.
C27_DiscordIdUnique ==
  \A d1, d2 \in Registered(store) :
    d1 # d2 => store[d1][1].discord_id # store[d2][1].discord_id

\* --------------------------------------------------------------------- C29
\* C29: update_discord_roles changes no role of a member that holds the
\* "Manual" role, whether or not the member is in the database records.
C29_ManualRolesKept ==
  [][(bot # None /\ "Manual" \in bot[1].roles) => bot'[1].roles = bot[1].roles]_vars

\* --------------------------------------------------------------------- C21
\* C21: each reader of stored records (leaderboard listing, search by Discord
\* username, lookup by puuid, lookup by Discord id, role sync) obtains from the
\* flat record what it obtains from the nested record with the same values, and
\* raises on neither.
C21_ReadersTolerateBothShapes ==
  readOut # None =>
    \A rdr \in Readers :
      /\ \A sh \in Shapes : readOut[1][rdr][sh] # None => readOut[1][rdr][sh][1].ok
      /\ (readOut[1][rdr]["nested"] # None /\ readOut[1][rdr]["flat"] # None)
           => readOut[1][rdr]["nested"] = readOut[1][rdr]["flat"]

====
